---- MODULE Spec2Model ----
\* Model of the streaming extractor extract_chat_html (chat_export_to_json.py):
\* a byte-at-a-time scanner that copies the right-hand side of the first
\* `jsonData = ...` and `assetsJson = ...` lines of chat.html to two files.
\* A byte is modelled as a one-character string.  data_out and assets_out
\* are two distinct paths, both different from the input path; the file
\* system is the function fs from the target to the content of its
\* destination.  Buffering inside the file objects is not modelled: a write
\* appends to the content of the file at once.
EXTENDS Integers, Sequences, FiniteSets, TLC

----------------------------------------------------------------------------
\* Byte constants and literals

SPACE == " "
TAB == "\t"
NEWLINE == "\n"
CR == "\r"
SEMI == ";"
EQUALS == "="
SPACE_TABS == {SPACE, TAB}

KW_VAR == <<"v", "a", "r">>
KW_LET == <<"l", "e", "t">>
KW_CONST == <<"c", "o", "n", "s", "t">>
WINDOW_DOT == <<"w", "i", "n", "d", "o", "w", ".">>
JSON_DATA == <<"j", "s", "o", "n", "D", "a", "t", "a">>
ASSETS_JSON == <<"a", "s", "s", "e", "t", "s", "J", "s", "o", "n">>

None == "None"
\* the content of a path that does not exist (no sequence of bytes)
NoFile == <<"NoFile">>

\* the value of ret before the return
NoReturn == <<>>
Targets == {"json", "assets"}

MinTrailingBuffer == 1024
MinChunkSize == 65536

Max2(a, b) == IF a >= b THEN a ELSE b
Min2(a, b) == IF a <= b THEN a ELSE b

----------------------------------------------------------------------------
\* bytes helpers

\* bytes.lstrip(SPACE_TABS)
RECURSIVE lstrip(_)
lstrip(b) ==
  IF b # <<>> /\ Head(b) \in SPACE_TABS THEN lstrip(Tail(b)) ELSE b

\* bytes.startswith(p)
startswith(b, p) == Len(b) >= Len(p) /\ SubSeq(b, 1, Len(p)) = p

\* b[n:]
DropFirst(b, n) == SubSeq(b, n + 1, Len(b))

\* the for loop over the keywords without its break: every keyword that
\* follows is stripped as well
StripKeywordRepeated(b) ==
  LET once(x) ==
        IF startswith(x, KW_VAR) THEN lstrip(DropFirst(x, Len(KW_VAR)))
        ELSE IF startswith(x, KW_LET) THEN lstrip(DropFirst(x, Len(KW_LET)))
        ELSE IF startswith(x, KW_CONST) THEN lstrip(DropFirst(x, Len(KW_CONST)))
        ELSE x
  IN  once(once(once(b)))

\* the for loop over (b"var", b"let", b"const") with its break
StripKeyword(b) ==
  IF startswith(b, KW_VAR) THEN lstrip(DropFirst(b, Len(KW_VAR)))
  ELSE IF startswith(b, KW_LET) THEN lstrip(DropFirst(b, Len(KW_LET)))
  ELSE IF startswith(b, KW_CONST) THEN lstrip(DropFirst(b, Len(KW_CONST)))
  ELSE b

StripWindow(b) ==
  IF startswith(b, WINDOW_DOT) THEN lstrip(DropFirst(b, Len(WINDOW_DOT)))
  ELSE b

\* b contains p
contains(b, p) ==
  \E i \in 0..(Len(b) - Len(p)) : SubSeq(b, i + 1, i + Len(p)) = p

\* _which_assignment testing `in` where the code tests startswith
_which_assignment_in(head) ==
  LET b == StripWindow(StripKeyword(lstrip(head)))
  IN  IF contains(b, JSON_DATA) THEN "json"
      ELSE IF contains(b, ASSETS_JSON) THEN "assets"
      ELSE None

_which_assignment(head) ==
  LET b == StripWindow(StripKeyword(lstrip(head)))
  IN  IF startswith(b, JSON_DATA) THEN "json"
      ELSE IF startswith(b, ASSETS_JSON) THEN "assets"
      ELSE None

----------------------------------------------------------------------------
\* The trailing window (collections.deque with maxlen)

\* deque.append on a deque with maxlen m: a full deque drops its left end
DequeAppend(h, b, m) ==
  IF Len(h) >= m THEN Append(Tail(h), b) ELSE Append(h, b)

\* while hold and hold[-1] in (SPACE, TAB, CR): hold.pop()
\* (the loop stops at the last byte that is none of the three; k is its index)
PopTrailing(h) ==
  LET k == CHOOSE k \in 0..Len(h) :
             /\ k = 0 \/ h[k] \notin {SPACE, TAB, CR}
             /\ \A i \in (k + 1)..Len(h) : h[i] \in {SPACE, TAB, CR}
  IN  SubSeq(h, 1, k)

\* `while` where the code has `if`: every trailing ';' is popped
PopSemiAll(h) ==
  LET k == CHOOSE k \in 0..Len(h) :
             /\ k = 0 \/ h[k] # SEMI
             /\ \A i \in (k + 1)..Len(h) : h[i] = SEMI
  IN  SubSeq(h, 1, k)

\* if hold and hold[-1] == SEMI: hold.pop()
PopSemi(h) ==
  IF h # <<>> /\ h[Len(h)] = SEMI THEN SubSeq(h, 1, Len(h) - 1) ELSE h

\* the trims without the `if hold and hold[-1] == SEMI` step
TrimNewlineKeepSemi(h) == PopTrailing(h)

TrimEofKeepSemi(h) == PopTrailing(h)

\* the trim at a newline (lines 157-162)
TrimNewline(h) == PopSemi(PopTrailing(h))

\* the trim at EOF (lines 186-189)
TrimEof(h) == PopSemi(PopTrailing(h))

----------------------------------------------------------------------------
VARIABLES
  html_file,        \* the input file (see html below)
  is_file,          \* html_path.is_file()
  overwrite,        \* parameter overwrite
  chunk_size,       \* parameter chunk_size
  trailing_buffer,  \* parameter trailing_buffer
  pc,               \* "start", "scan", "done" (returned) or "error" (raised)
  err,              \* the exception raised, or None
  ret,              \* the returned pair, or NoReturn
  avail,            \* number of input bytes read so far (file offset of f)
  pos,              \* index in html of the next byte of the chunk loop
  found_json,
  found_assets,
  out_fp,           \* None or the target whose file object out_fp refers to
  capturing,        \* None, "json", "assets" or "skipline"
  started_content,
  hold,             \* the deque
  headbuf,
  fs,               \* target -> NoFile or the content of its destination
  fs0,              \* fs when the run starts (never assigned by the program)
  checked,          \* target -> number of path.exists() calls
  opened,           \* target -> number of path.open("wb") calls
  closed            \* target -> number of close() calls

cfg == <<html_file, is_file, overwrite, chunk_size, trailing_buffer, fs0>>
vars == <<html_file, is_file, overwrite, chunk_size, trailing_buffer, fs0, pc, err, ret,
          avail, pos, found_json, found_assets, out_fp, capturing,
          started_content, hold, headbuf, fs, checked, opened, closed>>

Rep(c, n) == [i \in 1..n |-> c]

\* LongInput is longer than the minimum read size: a skipped line, then a
\* jsonData line whose value begins before byte MinChunkSize of the input and
\* ends after it.
LongTail == JSON_DATA \o <<EQUALS, "[", "1", ",", "2", "]", SEMI, NEWLINE>>

LongInput ==
  <<"x", EQUALS>> \o Rep("y", MinChunkSize - 13) \o <<NEWLINE>> \o LongTail

\* ChunkInput is longer than the minimum read size as well: a skipped line
\* of MinChunkSize - 6 bytes, the line ChunkLine, of which byte 6 (inside the
\* name) is byte MinChunkSize of the input, and an assetsJson line without a
\* newline.  ChunkCuts are the numbers of bytes of ChunkLine that lie before
\* the end of a read: inside the head, among the spaces after the '=', inside
\* the value, and inside the trailing run after the ';'.
ChunkLine ==
  KW_VAR \o <<SPACE>> \o JSON_DATA \o <<SPACE, EQUALS, SPACE>>
    \o <<"[", "1", ",", "2", "]", SPACE, SEMI, SPACE, TAB, CR>>

ChunkInput ==
  <<"x", EQUALS>> \o Rep("y", MinChunkSize - 9) \o <<NEWLINE>>
    \o ChunkLine \o <<NEWLINE>> \o ASSETS_JSON \o <<EQUALS, "{", "}">>

ChunkCuts == {6, 15, 17, 24}

\* The files longer than a read.  A state holds such a file by its number in
\* LongFiles and any other file by its bytes.
LongFiles == <<LongInput, ChunkInput>>

File(s) ==
  IF \E k \in DOMAIN LongFiles : LongFiles[k] = s
  THEN [long |-> CHOOSE k \in DOMAIN LongFiles : LongFiles[k] = s,
        bytes |-> <<>>]
  ELSE [long |-> 0, bytes |-> s]

\* content of the input file
html ==
  IF html_file.long = 0 THEN html_file.bytes ELSE LongFiles[html_file.long]

\* hold.maxlen
HoldMaxlen == Max2(MinTrailingBuffer, trailing_buffer)

\* f.read(chunk_size) without the max
ReadSizeUnclamped == chunk_size

\* the argument of f.read
ReadSize == Max2(MinChunkSize, chunk_size)

\* the state the scanner works on, as one record
Locals ==
  [pc |-> pc, err |-> err, ret |-> ret,
   found_json |-> found_json, found_assets |-> found_assets,
   out_fp |-> out_fp, capturing |-> capturing,
   started_content |-> started_content, hold |-> hold, headbuf |-> headbuf,
   fs |-> fs, checked |-> checked, opened |-> opened, closed |-> closed]

Assign(n) ==
  /\ pc' = n.pc
  /\ err' = n.err
  /\ ret' = n.ret
  /\ found_json' = n.found_json
  /\ found_assets' = n.found_assets
  /\ out_fp' = n.out_fp
  /\ capturing' = n.capturing
  /\ started_content' = n.started_content
  /\ hold' = n.hold
  /\ headbuf' = n.headbuf
  /\ fs' = n.fs
  /\ checked' = n.checked
  /\ opened' = n.opened
  /\ closed' = n.closed

\* the targets whose destination has an open file handle
OpenSinks(L) == {t \in Targets : L.opened[t] > L.closed[t]}

----------------------------------------------------------------------------
\* Output sink

\* _open_out without the path.exists() test
_open_out_unguarded(L, t) ==
  [L EXCEPT !.fs[t] = <<>>, !.opened[t] = @ + 1, !.out_fp = t]

\* _open_out opening (and so truncating) the file before it tests and raises
_open_out_truncating(L, t) ==
  LET c == [L EXCEPT !.checked[t] = @ + 1]
  IN  IF c.fs[t] # NoFile /\ ~overwrite
      THEN [c EXCEPT !.fs[t] = <<>>, !.pc = "error", !.err = "FileExistsError"]
      ELSE [c EXCEPT !.fs[t] = <<>>, !.opened[t] = @ + 1, !.out_fp = t]

\* _open_out opening with mode "ab": an existing file keeps its content
_open_out_appending(L, t) ==
  LET c == [L EXCEPT !.checked[t] = @ + 1]
  IN  IF c.fs[t] # NoFile /\ ~overwrite
      THEN [c EXCEPT !.pc = "error", !.err = "FileExistsError"]
      ELSE [c EXCEPT !.fs[t] = IF @ = NoFile THEN <<>> ELSE @,
                     !.opened[t] = @ + 1, !.out_fp = t]

\* _open_out(path, overwrite) for the destination of target t, assigned to out_fp
_open_out(L, t) ==
  LET c == [L EXCEPT !.checked[t] = @ + 1]
  IN  IF c.fs[t] # NoFile /\ ~overwrite
      THEN [c EXCEPT !.pc = "error", !.err = "FileExistsError"]
      ELSE [c EXCEPT !.fs[t] = <<>>, !.opened[t] = @ + 1, !.out_fp = t]

\* every write going to the file of data_out
write_data_out(L, data) == [L EXCEPT !.fs["json"] = @ \o data]

\* out_fp.write(data)
write(L, data) == [L EXCEPT !.fs[L.out_fp] = @ \o data]

\* a close() that is left out
closeNever(L) == L

\* out_fp.close()
close(L) == [L EXCEPT !.closed[L.out_fp] = @ + 1]

\* the found flags never set
MarkFoundNever(L) == L

\* found_json = True or found_assets = True, by the value of capturing
MarkFound(L) ==
  IF L.capturing = "json" THEN [L EXCEPT !.found_json = TRUE]
  ELSE [L EXCEPT !.found_assets = TRUE]

----------------------------------------------------------------------------
\* The body of the loop `for b in chunk`

\* lines 117-141 staying in ScanningHead after an '=' whose head names no
\* target
ScanHeadNoSkip(L, b) ==
  LET hb == Append(L.headbuf, b)
  IN  IF b = NEWLINE THEN [L EXCEPT !.headbuf = <<>>]
      ELSE IF b = EQUALS THEN
        LET var == _which_assignment(SubSeq(hb, 1, Len(hb) - 1))
        IN  IF var = None
            THEN [L EXCEPT !.headbuf = <<>>]
            ELSE IF \/ var = "json" /\ ~L.found_json
                    \/ var = "assets" /\ ~L.found_assets
            THEN LET o == _open_out([L EXCEPT !.headbuf = hb], var)
                 IN  IF o.pc = "error" THEN o
                     ELSE [o EXCEPT !.capturing = var,
                                    !.started_content = FALSE,
                                    !.hold = <<>>,
                                    !.headbuf = <<>>]
            ELSE [L EXCEPT !.headbuf = <<>>, !.capturing = "skipline"]
      ELSE [L EXCEPT !.headbuf = hb]

\* lines 117-141 without the headbuf.clear() at a newline
ScanHeadNoClear(L, b) ==
  LET hb == Append(L.headbuf, b)
  IN  IF b = NEWLINE THEN [L EXCEPT !.headbuf = hb]
      ELSE IF b = EQUALS THEN
        LET var == _which_assignment(SubSeq(hb, 1, Len(hb) - 1))
        IN  IF var = None
            THEN [L EXCEPT !.headbuf = <<>>, !.capturing = "skipline"]
            ELSE IF \/ var = "json" /\ ~L.found_json
                    \/ var = "assets" /\ ~L.found_assets
            THEN LET o == _open_out([L EXCEPT !.headbuf = hb], var)
                 IN  IF o.pc = "error" THEN o
                     ELSE [o EXCEPT !.capturing = var,
                                    !.started_content = FALSE,
                                    !.hold = <<>>,
                                    !.headbuf = <<>>]
            ELSE [L EXCEPT !.headbuf = <<>>, !.capturing = "skipline"]
      ELSE [L EXCEPT !.headbuf = hb]

\* capturing is None (lines 117-141)
ScanHead(L, b) ==
  LET hb == Append(L.headbuf, b)
  IN  IF b = NEWLINE THEN [L EXCEPT !.headbuf = <<>>]
      ELSE IF b = EQUALS THEN
        LET var == _which_assignment(SubSeq(hb, 1, Len(hb) - 1))
        IN  IF var = None
            THEN [L EXCEPT !.headbuf = <<>>, !.capturing = "skipline"]
            ELSE IF \/ var = "json" /\ ~L.found_json
                    \/ var = "assets" /\ ~L.found_assets
            THEN LET o == _open_out([L EXCEPT !.headbuf = hb], var)
                 IN  IF o.pc = "error" THEN o
                     ELSE [o EXCEPT !.capturing = var,
                                    !.started_content = FALSE,
                                    !.hold = <<>>,
                                    !.headbuf = <<>>]
            ELSE [L EXCEPT !.headbuf = <<>>, !.capturing = "skipline"]
      ELSE [L EXCEPT !.headbuf = hb]

\* capturing == "skipline" (lines 143-146)
SkipLine(L, b) ==
  IF b = NEWLINE THEN [L EXCEPT !.capturing = None, !.headbuf = <<>>] ELSE L

\* the newline branch without `capturing = None`
CaptureNewlineStay(L) ==
  LET rest == TrimNewline(L.hold)
      w == IF rest # <<>> THEN write(L, rest) ELSE L
      f == MarkFound(close(w))
  IN  [f EXCEPT !.out_fp = None, !.headbuf = <<>>,
                !.hold = <<>>, !.started_content = FALSE]

\* the newline branch of a capture (lines 156-178)
CaptureNewline(L) ==
  LET rest == TrimNewline(L.hold)
      w == IF rest # <<>> THEN write(L, rest) ELSE L
      f == MarkFound(close(w))
  IN  [f EXCEPT !.out_fp = None, !.capturing = None, !.headbuf = <<>>,
                !.hold = <<>>, !.started_content = FALSE]

\* lines 179-182 with hold a plain list: no maxlen and no eviction
CapturePushUnbounded(L, b) == [L EXCEPT !.hold = Append(L.hold, b)]

\* lines 179-182 evicting only at len(hold) > hold.maxlen, which a deque
\* never reaches: the deque drops its left end itself and nothing is written
CapturePushDropping(L, b) ==
  LET h == DequeAppend(L.hold, b, HoldMaxlen)
  IN  IF Len(h) > HoldMaxlen
      THEN write([L EXCEPT !.hold = Tail(h)], <<Head(h)>>)
      ELSE [L EXCEPT !.hold = h]

\* lines 179-182 setting the found flag as soon as a byte is pushed
CapturePushMarking(L, b) ==
  LET h == DequeAppend(L.hold, b, HoldMaxlen)
  IN  MarkFound(IF Len(h) = HoldMaxlen
                THEN write([L EXCEPT !.hold = Tail(h)], <<Head(h)>>)
                ELSE [L EXCEPT !.hold = h])

\* the other branch of a capture (lines 179-182)
CapturePush(L, b) ==
  LET h == DequeAppend(L.hold, b, HoldMaxlen)
  IN  IF Len(h) = HoldMaxlen
      THEN write([L EXCEPT !.hold = Tail(h)], <<Head(h)>>)
      ELSE [L EXCEPT !.hold = h]

\* a capture that skips every space and tab, not only the leading ones
CaptureSkipAllBlanks(L, b) ==
  IF b \in {SPACE, TAB} THEN L
  ELSE LET s == [L EXCEPT !.started_content = TRUE]
       IN  IF b = NEWLINE THEN CaptureNewline(s) ELSE CapturePush(s, b)

\* capturing is "json" or "assets" (lines 148-182)
Capture(L, b) ==
  IF ~L.started_content /\ b \in {SPACE, TAB} THEN L
  ELSE LET s == [L EXCEPT !.started_content = TRUE]
       IN  IF b = NEWLINE THEN CaptureNewline(s) ELSE CapturePush(s, b)

\* one iteration of the loop (lines 116-182)
OnByte(L, b) ==
  IF L.capturing = None THEN ScanHead(L, b)
  ELSE IF L.capturing = "skipline" THEN SkipLine(L, b)
  ELSE Capture(L, b)

\* the return giving both paths whatever the found flags are
OnEofAlwaysPaths(L) ==
  LET f == IF L.capturing \in Targets /\ L.out_fp # None
           THEN LET rest == TrimEof(L.hold)
                    h == [L EXCEPT !.hold = rest]
                    w == IF rest # <<>> THEN write(h, rest) ELSE h
                IN  MarkFound(close(w))
           ELSE L
  IN  [f EXCEPT !.pc = "done", !.ret = <<"data_out", "assets_out">>]

\* f.read returned b"": break, EOF finalization and return (lines 113-114, 184-198)
OnEof(L) ==
  LET f == IF L.capturing \in Targets /\ L.out_fp # None
           THEN LET rest == TrimEof(L.hold)
                    h == [L EXCEPT !.hold = rest]
                    w == IF rest # <<>> THEN write(h, rest) ELSE h
                IN  MarkFound(close(w))
           ELSE L
  IN  [f EXCEPT !.pc = "done",
                !.ret = <<IF f.found_json THEN "data_out" ELSE None,
                          IF f.found_assets THEN "assets_out" ELSE None>>]

----------------------------------------------------------------------------
\* Inputs

MaxLines == 2

LineP3 == <<"v", "a", "r", " ", "j", "s", "o", "n", "D", "a", "t", "a", " ", "=", " ", " ", " ", "[", "1", ",", "2", ",", "3", "]", " ", " ", ";", " ", " ">>
LineAssets == <<"c", "o", "n", "s", "t", " ", "w", "i", "n", "d", "o", "w", ".", "a", "s", "s", "e", "t", "s", "J", "s", "o", "n", " ", "=", " ", "{", "\"", "a", "\"", ":", "\"", "b", "\"", "}", ";">>
LineJson == <<"v", "a", "r", " ", "j", "s", "o", "n", "D", "a", "t", "a", "=", "[", "{", "\"", "x", "\"", ":", "1", "}", "]">>
LineSemis == <<"j", "s", "o", "n", "D", "a", "t", "a", "=", "y", ";", ";", "\r">>
LineBlank == <<"a", "s", "s", "e", "t", "s", "J", "s", "o", "n", "=", " ", "\t">>
LineOther == <<"x", "=", "j", "s", "o", "n", "D", "a", "t", "a", "=", "1">>
LineNoEq == <<"<", "p", ">">>
LineLetOther == <<"l", "e", "t", " ", "x", ".", "j", "s", "o", "n", "D", "a", "t", "a", "=", "1">>
LineEmpty == <<"j", "s", "o", "n", "D", "a", "t", "a", "=">>
OldContent == <<"o", "l", "d">>

Lines ==
  {LineP3, LineAssets, LineJson, LineSemis, LineBlank, LineOther, LineNoEq,
   LineLetOther}

\* the texts of at most n lines of Lines, each ended by a newline
RECURSIVE Texts(_)
Texts(n) ==
  IF n = 0 THEN {<<>>}
  ELSE {<<>>} \cup {l \o <<NEWLINE>> \o t : l \in Lines, t \in Texts(n - 1)}

\* two lines that name a target with any line between them
Interleaved ==
  {a \o <<NEWLINE>> \o m \o <<NEWLINE>> \o b \o <<NEWLINE>> :
     a \in {LineJson, LineBlank}, m \in Lines,
     b \in {LineSemis, LineAssets, LineBlank}}

\* a line with nothing after its '=', alone and before another line
Empties ==
  {LineEmpty \o <<NEWLINE>>,
   LineEmpty \o <<NEWLINE>> \o LineAssets \o <<NEWLINE>>,
   LineBlank \o <<NEWLINE>> \o LineEmpty \o <<NEWLINE>>}

\* the same texts, with and without the newline of the last line
ShortInputs ==
  LET texts == Texts(MaxLines) \cup Interleaved \cup Empties
  IN  texts \cup {SubSeq(t, 1, Len(t) - 1) : t \in texts \ {<<>>}}

InitWith(inputs, buffers, chunks, existing, overwrites) ==
  /\ html_file \in {File(s) : s \in inputs}
  /\ is_file \in BOOLEAN
  /\ overwrite \in overwrites
  /\ chunk_size \in chunks
  /\ trailing_buffer \in buffers
  /\ pc = "start"
  /\ err = None
  /\ ret = NoReturn
  /\ avail = 0
  /\ pos = 1
  /\ found_json = FALSE
  /\ found_assets = FALSE
  /\ out_fp = None
  /\ capturing = None
  /\ started_content = FALSE
  /\ hold = <<>>
  /\ headbuf = <<>>
  /\ fs \in [Targets -> existing]
  /\ fs0 = fs
  /\ checked = [t \in Targets |-> 0]
  /\ opened = [t \in Targets |-> 0]
  /\ closed = [t \in Targets |-> 0]

\* the defaults of chunk_size and trailing_buffer
Init ==
  InitWith(ShortInputs, {8192}, {1048576}, {NoFile, OldContent}, BOOLEAN)

\* Inputs for the runs that are followed to their end: the empty input, every
\* line alone, and a jsonData line followed by a skipped or duplicate line and
\* by an assetsJson or duplicate line; with and without the last newline
LiveInputs ==
  LET texts ==
        {l \o <<NEWLINE>> : l \in Lines \cup {LineEmpty}} \cup
        {LineJson \o <<NEWLINE>> \o m \o <<NEWLINE>> \o b \o <<NEWLINE>> :
           m \in {LineOther, LineSemis}, b \in {LineAssets, LineSemis}}
  IN  {<<>>} \cup texts \cup {SubSeq(t, 1, Len(t) - 1) : t \in texts}

InitLive ==
  InitWith(LiveInputs, {8192}, {1048576}, {NoFile, OldContent}, BOOLEAN)

\* Inputs with a jsonData line whose value reaches the capacity of the window:
\* a body, an optional semicolon, a run of space/tab/CR and an optional
\* newline, after an optional line that is skipped
MaxBody == 1
MaxOver == 1

TrailRun(n) ==
  [i \in 1..n |-> IF i % 3 = 1 THEN SPACE ELSE IF i % 3 = 2 THEN TAB ELSE CR]

WindowBodies ==
  {Rep("y", n) : n \in 0..MaxBody} \cup {Rep("y", MinTrailingBuffer + 1)}

WindowRuns ==
  {TrailRun(n) : n \in {1} \cup
                        ((MinTrailingBuffer - 2)..(MinTrailingBuffer + MaxOver))}

WindowLines ==
  {JSON_DATA \o <<EQUALS>> \o body \o semi \o run :
     body \in WindowBodies, semi \in {<<>>, <<SEMI>>}, run \in WindowRuns}

WindowInputs ==
  {lead \o line \o term :
     lead \in {<<>>, LineOther \o <<NEWLINE>>}, line \in WindowLines,
     term \in {<<>>, <<NEWLINE>>}}

\* the same with spaces and tabs between the '=' and a value longer than the
\* window
WindowLedInputs ==
  {JSON_DATA \o <<EQUALS, SPACE, TAB, SPACE>>
     \o Rep("y", MinTrailingBuffer + 1) \o <<SPACE, SEMI>> \o TrailRun(2) \o term :
     term \in {<<>>, <<NEWLINE>>}}

\* trailing_buffer below the minimum and one above it
InitWindow ==
  InitWith(WindowInputs \cup WindowLedInputs, {0, MinTrailingBuffer + 1},
           {1048576}, {NoFile}, {FALSE})

\* Heads for the Head Matcher: spaces/tabs, keywords (also two in a row, and
\* one with a letter after it), `window.` (also a broken one), and names (also
\* with a suffix, cut short, with a prefix, and a keyword in the place of the
\* name), each line being head, '=' and a one-byte value
HeadSpaces == {<<>>, <<SPACE>>, <<TAB, SPACE>>}

HeadKeywords ==
  {<<>>, KW_VAR, KW_LET, KW_CONST, KW_VAR \o KW_LET, KW_CONST \o <<"s">>}

HeadWindows == {<<>>, WINDOW_DOT, <<"w">>}

HeadIdents ==
  {JSON_DATA, ASSETS_JSON, JSON_DATA \o <<"E", "x", "t", "r", "a">>,
   SubSeq(JSON_DATA, 1, Len(JSON_DATA) - 1), <<"x">> \o JSON_DATA,
   ASSETS_JSON \o JSON_DATA, KW_VAR \o <<SPACE>> \o JSON_DATA}

Heads ==
  {s1 \o kw \o s2 \o win \o s3 \o id :
     s1 \in HeadSpaces, kw \in HeadKeywords, s2 \in HeadSpaces,
     win \in HeadWindows, s3 \in HeadSpaces, id \in HeadIdents}

HeadInputs == {h \o <<EQUALS, "1">> : h \in Heads}

InitHead == InitWith(HeadInputs, {8192}, {1048576}, {NoFile}, {FALSE})

\* Inputs for the two clamps: LongInput, and ShortValue, which is longer than
\* the minimum window.
ShortValue ==
  JSON_DATA \o <<EQUALS>> \o Rep("y", MinTrailingBuffer + 2) \o <<SEMI>>

InitConfig ==
  \/ InitWith({LongInput}, {8192}, {-1, MinChunkSize + 1}, {NoFile}, {FALSE})
  \/ InitWith({ShortValue}, {-1, 0, MinTrailingBuffer, MinTrailingBuffer + 1},
              {0, MinChunkSize}, {NoFile}, {FALSE})

\* ChunkInput read in chunks that end at each of ChunkCuts, and in one read
InitChunk ==
  InitWith({ChunkInput}, {8192},
           {MinChunkSize - 6 + c : c \in ChunkCuts} \cup {1048576},
           {NoFile}, {FALSE})

----------------------------------------------------------------------------
\* Actions

\* lines 88-110 without the is_file test
BeginUnchecked ==
  /\ pc = "start"
  /\ pc' = "scan"
  /\ UNCHANGED <<cfg, err, ret, avail, pos, found_json, found_assets, out_fp,
                 capturing, started_content, hold, headbuf, fs, checked,
                 opened, closed>>

\* lines 88-110 testing the two destinations up front
BeginChecking ==
  /\ pc = "start"
  /\ IF ~is_file
     THEN pc' = "error" /\ err' = "FileNotFoundError" /\ checked' = checked
     ELSE /\ checked' = [t \in Targets |-> checked[t] + 1]
          /\ IF ~overwrite /\ \E t \in Targets : fs[t] # NoFile
             THEN pc' = "error" /\ err' = "FileExistsError"
             ELSE pc' = "scan" /\ err' = err
  /\ UNCHANGED <<cfg, ret, avail, pos, found_json, found_assets, out_fp,
                 capturing, started_content, hold, headbuf, fs, opened, closed>>

\* lines 88-110: the is_file test, the initial locals, opening the input
Begin ==
  /\ pc = "start"
  /\ IF is_file
     THEN pc' = "scan" /\ err' = err
     ELSE pc' = "error" /\ err' = "FileNotFoundError"
  /\ UNCHANGED <<cfg, ret, avail, pos, found_json, found_assets, out_fp,
                 capturing, started_content, hold, headbuf, fs, checked,
                 opened, closed>>

\* a read after which the loop starts with a new headbuf, window and flag
ReadChunkClearing ==
  /\ pc = "scan"
  /\ pos > avail
  /\ avail < Len(html)
  /\ avail' = avail + Min2(ReadSize, Len(html) - avail)
  /\ headbuf' = <<>>
  /\ hold' = <<>>
  /\ started_content' = FALSE
  /\ UNCHANGED <<cfg, pc, err, ret, pos, found_json, found_assets, out_fp,
                 capturing, fs, checked, opened, closed>>

\* chunk = f.read(...) returning at least one byte
ReadChunk ==
  /\ pc = "scan"
  /\ pos > avail
  /\ avail < Len(html)
  /\ avail' = avail + Min2(ReadSize, Len(html) - avail)
  /\ UNCHANGED <<cfg, pc, err, ret, pos, found_json, found_assets, out_fp,
                 capturing, started_content, hold, headbuf, fs, checked,
                 opened, closed>>

ScanHeadByte ==
  /\ pc = "scan"
  /\ pos <= avail
  /\ capturing = None
  /\ Assign(ScanHead(Locals, html[pos]))
  /\ pos' = pos + 1
  /\ UNCHANGED <<cfg, avail>>

SkipLineByte ==
  /\ pc = "scan"
  /\ pos <= avail
  /\ capturing = "skipline"
  /\ Assign(SkipLine(Locals, html[pos]))
  /\ pos' = pos + 1
  /\ UNCHANGED <<cfg, avail>>

CaptureByte ==
  /\ pc = "scan"
  /\ pos <= avail
  /\ capturing \in Targets
  /\ Assign(Capture(Locals, html[pos]))
  /\ pos' = pos + 1
  /\ UNCHANGED <<cfg, avail>>

\* chunk = f.read(...) returning b""
AtEof ==
  /\ pc = "scan"
  /\ pos > avail
  /\ avail = Len(html)
  /\ Assign(OnEof(Locals))
  /\ UNCHANGED <<cfg, avail, pos>>

\* f.read raises OSError
ReadFails ==
  /\ pc = "scan"
  /\ pos > avail
  /\ pc' = "error"
  /\ err' = "OSError"
  /\ UNCHANGED <<cfg, ret, avail, pos, found_json, found_assets, out_fp,
                 capturing, started_content, hold, headbuf, fs, checked,
                 opened, closed>>

\* the next out_fp.write (of an evicted byte, or of the remainder at a newline
\* or at EOF) raises OSError before it writes a byte
WriteFails ==
  /\ pc = "scan"
  /\ capturing \in Targets
  /\ LET n == IF pos <= avail THEN Capture(Locals, html[pos]) ELSE OnEof(Locals)
     IN  /\ pos <= avail \/ avail = Len(html)
         /\ n.fs # fs
  /\ pc' = "error"
  /\ err' = "OSError"
  /\ UNCHANGED <<cfg, ret, avail, pos, found_json, found_assets, out_fp,
                 capturing, started_content, hold, headbuf, fs, checked,
                 opened, closed>>

Next ==
  \/ Begin
  \/ ReadChunk
  \/ ScanHeadByte
  \/ SkipLineByte
  \/ CaptureByte
  \/ AtEof

Spec == Init /\ [][Next]_vars

\* the exit status of main once extract_chat_html has returned or raised
\* (lines 212-241)
main ==
  IF pc = "done" THEN 0
  ELSE IF err \in {"FileExistsError", "FileNotFoundError"} THEN 2
  ELSE 1

\* the run is one sequential thread that is never suspended for good: a step
\* that can be taken is taken
SpecLive == InitLive /\ [][Next]_vars /\ WF_vars(Next)

SpecWindow == InitWindow /\ [][Next]_vars

SpecHead == InitHead /\ [][Next]_vars

SpecConfig == InitConfig /\ [][Next]_vars

SpecChunk == InitChunk /\ [][Next]_vars

\* the same runs, in which a read or a write may fail
NextFault ==
  \/ Next
  \/ ReadFails
  \/ WriteFails

SpecFault == Init /\ [][NextFault]_vars

----------------------------------------------------------------------------
\* The input as the documentation describes it: physical lines, the head
\* before the first '=' of a line, the value after it, and the documented trim

SetMin(S) == CHOOSE m \in S : \A x \in S : m <= x

Newlines == {i \in 1..Len(html) : html[i] = NEWLINE}

\* the index of the first byte of every line
LineStarts == ({1} \cup {i + 1 : i \in Newlines}) \cap (1..Len(html))

\* the index of the last byte of the line that starts at s
LineEnd(s) ==
  LET after == {i \in Newlines : i >= s}
  IN  IF after = {} THEN Len(html) ELSE SetMin(after) - 1

\* the index of the first '=' of the line that starts at s, or 0
FirstEquals(s) ==
  LET eqs == {i \in s..LineEnd(s) : html[i] = EQUALS}
  IN  IF eqs = {} THEN 0 ELSE SetMin(eqs)

\* v without its leading spaces and tabs
StripLeading(v) ==
  LET k == CHOOSE k \in 1..(Len(v) + 1) :
             /\ k = Len(v) + 1 \/ v[k] \notin {SPACE, TAB}
             /\ \A i \in 1..(k - 1) : v[i] \in {SPACE, TAB}
  IN  SubSeq(v, k, Len(v))

\* the head h is: spaces/tabs, at most one keyword, spaces/tabs, an optional
\* `window.`, spaces/tabs, then name, then anything
HeadNames(h, name) ==
  \E kw \in {<<>>, KW_VAR, KW_LET, KW_CONST}, win \in {<<>>, WINDOW_DOT} :
    LET a == StripLeading(h)
        b == StripLeading(DropFirst(a, Len(kw)))
        c == StripLeading(DropFirst(b, Len(win)))
    IN  startswith(a, kw) /\ startswith(b, win) /\ startswith(c, name)

\* the target the Head Matcher is documented to give for the head h
HeadTarget(h) ==
  IF HeadNames(h, JSON_DATA) THEN "json"
  ELSE IF HeadNames(h, ASSETS_JSON) THEN "assets"
  ELSE None

LineTarget(s) ==
  IF FirstEquals(s) = 0 THEN None
  ELSE HeadTarget(SubSeq(html, s, FirstEquals(s) - 1))

LineValue(s) == SubSeq(html, FirstEquals(s) + 1, LineEnd(s))

LinesOf(t) == {s \in LineStarts : LineTarget(s) = t}

HasLine(t) == LinesOf(t) # {}

FirstLine(t) == SetMin(LinesOf(t))

\* v without its trailing run of space, tab and CR
StripTrailing(v) ==
  LET k == CHOOSE k \in 0..Len(v) :
             /\ k = 0 \/ v[k] \notin {SPACE, TAB, CR}
             /\ \A i \in (k + 1)..Len(v) : v[i] \in {SPACE, TAB, CR}
  IN  SubSeq(v, 1, k)

\* v without one trailing ';'
StripSemi(v) ==
  IF Len(v) > 0 /\ v[Len(v)] = SEMI THEN SubSeq(v, 1, Len(v) - 1) ELSE v

\* the documented trim of a value
Trimmed(v) == StripSemi(StripTrailing(StripLeading(v)))

\* the length of the trailing run of space/tab/CR of v plus its optional ';'
TrimRunLen(v) == Len(StripLeading(v)) - Len(Trimmed(v))

\* the content the destination of t is to have after a run over html
Expected(t) == Trimmed(LineValue(FirstLine(t)))

Ended == pc \in {"done", "error"}

Found(t) == IF t = "json" THEN found_json ELSE found_assets

Preexisting(t) == fs0[t] # NoFile

\* the existence check of the destination of t refused to open it
Refused(t) == checked[t] > opened[t]

\* the next byte of the chunk loop is b
NextByteIs(b) == pc = "scan" /\ pos <= avail /\ html[pos] = b

P3Out == <<"[", "1", ",", "2", ",", "3", "]">>
P3Code == <<"[", "1", ",", "2", ",", "3", "]", " ", " ">>

----------------------------------------------------------------------------
\* C1: whenever the trailing run of space/tab/CR plus the optional ';' of a
\* captured line is at most the capacity of the window (exactly the capacity
\* included), the file holds exactly the bytes between '=' and the line end
\* without the leading spaces/tabs, the trailing run and one trailing ';'.
C1_ExactWithinCapacity ==
  pc = "done" =>
    \A t \in Targets :
      (HasLine(t) /\ TrimRunLen(LineValue(FirstLine(t))) <= HoldMaxlen)
        => fs[t] = Expected(t)

\* C9 (P2): the window never holds more bytes than its capacity
\* max(1024, trailing_buffer), whatever the length of the value.
C9_BoundedWindow == Len(hold) <= HoldMaxlen

\* a value longer than the window is being captured: bytes were evicted to
\* the file and the window is as full as it gets between two bytes
C9_Witness ==
  /\ capturing = "json"
  /\ Len(fs["json"]) > 2
  /\ Len(hold) = HoldMaxlen - 1

----------------------------------------------------------------------------
\* the first line of t has the shape of P3: its value ends, before the
\* trailing run of space/tab/CR, in a ';'
SemiShaped(t) ==
  /\ HasLine(t)
  /\ LET v == StripTrailing(StripLeading(LineValue(FirstLine(t))))
     IN  Len(v) > 0 /\ v[Len(v)] = SEMI

\* C2 (P3) as stated: the file is the value without the ';' and without the
\* space/tab/CR on both sides of the ';'; `var jsonData =   [1,2,3]  ;  \n`
\* gives exactly `[1,2,3]`.
C2_P3BothSides ==
  pc = "done" =>
    /\ \A t \in Targets :
         SemiShaped(t) =>
           fs[t] = StripTrailing(StripSemi(StripTrailing(
                     StripLeading(LineValue(FirstLine(t))))))
    /\ html = LineP3 \o <<NEWLINE>> => fs["json"] = P3Out

\* C2 amended: the file is the value without the space/tab/CR after the ';'
\* and without that ';'; the space/tab/CR before the ';' stay, so that
\* `var jsonData =   [1,2,3]  ;  \n` gives `[1,2,3]` followed by two spaces.
C2_P3AfterSemiOnly ==
  pc = "done" =>
    /\ \A t \in Targets :
         SemiShaped(t) =>
           fs[t] = StripSemi(StripTrailing(
                     StripLeading(LineValue(FirstLine(t)))))
    /\ html = LineP3 \o <<NEWLINE>> => fs["json"] = P3Code

C2_Witness ==
  pc = "done" /\ html = LineP3 \o <<NEWLINE>> /\ fs["json"] = P3Code

----------------------------------------------------------------------------
C3_Final ==
  pc = "done" =>
    \A t \in Targets :
      Cardinality(LinesOf(t)) >= 2 => fs[t] = Expected(t) /\ opened[t] = 1

C3_Step ==
  \A t \in Targets :
    /\ Found(t) =>
         fs'[t] = fs[t] /\ opened'[t] = opened[t] /\ checked'[t] = checked[t]
    /\ (NextByteIs(EQUALS) /\ capturing = None /\ HeadTarget(headbuf) = t
          /\ Found(t))
         => capturing' = "skipline"

\* C3 (P4): once a target is found, a later line of it sends the scanner to
\* SkippingLine, its destination is never opened, checked or written again,
\* and with two or more lines of a target the file ends as the trimmed value
\* of the first one.
C3_OnlyFirst == [](C3_Final) /\ [][C3_Step]_vars

\* a finished run over two lines of one target whose trimmed values differ
C3_Witness ==
  /\ pc = "done"
  /\ \E t \in Targets :
       /\ \E a, b \in LinesOf(t) :
            Trimmed(LineValue(a)) # Trimmed(LineValue(b))
       /\ fs[t] = Expected(t)

----------------------------------------------------------------------------
\* C4 (P7, refusing) as stated: with overwrite false and a pre-existing
\* destination of a target that has a line, the run fails with
\* FileExistsError and every other destination is as it was before the run.
C4_TouchesNoOther ==
  (Ended /\ is_file /\ ~overwrite
     /\ \E t \in Targets : HasLine(t) /\ Preexisting(t))
    => /\ err = "FileExistsError"
       /\ \A t \in Targets : ~Refused(t) => fs[t] = fs0[t]

C4_Final ==
  (Ended /\ is_file /\ ~overwrite
     /\ \E t \in Targets : HasLine(t) /\ Preexisting(t))
    => /\ err = "FileExistsError"
       /\ \A t \in Targets :
            ~Refused(t) =>
              \/ fs[t] = fs0[t]
              \/ /\ HasLine(t)
                 /\ ~Preexisting(t)
                 /\ \E c \in Targets :
                      Refused(c) /\ FirstLine(t) < FirstLine(c)
                 /\ fs[t] = Expected(t)

C4_Step == err' = "FileExistsError" => fs' = fs /\ opened' = opened

\* C4 amended: the run fails with FileExistsError; the step that raises it
\* creates, truncates and writes no file; the other destination is as it was
\* before the run unless the line of its target comes before the refused
\* line, in which case it was created and holds that line's trimmed value.
C4_TouchesNoOtherAfterwards == [](C4_Final) /\ [][C4_Step]_vars

C4_Witness ==
  /\ err = "FileExistsError"
  /\ \E t \in Targets : HasLine(t) /\ ~Preexisting(t) /\ fs[t] = Expected(t)

----------------------------------------------------------------------------
\* C5: when FileExistsError is raised for a target, its pre-existing file is
\* unchanged, and the file of the other target, if its capture was finalized
\* before, holds its whole trimmed value and is closed.
C5_NoRollback ==
  err = "FileExistsError" =>
    \A c \in Targets :
      Refused(c) =>
        /\ fs[c] = fs0[c]
        /\ \A t \in Targets \ {c} :
             Found(t) =>
               fs[t] = Expected(t) /\ opened[t] = 1 /\ closed[t] = 1

C5_Witness ==
  /\ err = "FileExistsError"
  /\ \E c \in Targets :
       Refused(c) /\ fs[c] = OldContent /\ \E t \in Targets \ {c} : Found(t)

----------------------------------------------------------------------------
\* C6: no run ends, by a return or by an error, with the file handle of a
\* destination still open.
C6_SinkReleased == Ended => OpenSinks(Locals) = {}

----------------------------------------------------------------------------
\* what a run leaves behind: the files, the returned pair, the error
Outcome(L) == <<L.fs, L.ret, L.pc, L.err>>

\* C7 (P6): when the input is used up and does not end in a newline, ending
\* the run here and ending it after one more newline leave the same files
\* and the same result; a run that meets EOF while capturing has finalized
\* the capture: trimmed value in the file, handle closed, target found.
C7_NoTrailingNewline ==
  /\ (pc = "scan" /\ pos > Len(html)
        /\ (Len(html) = 0 \/ html[Len(html)] # NEWLINE))
       => Outcome(OnEof(Locals)) = Outcome(OnEof(OnByte(Locals, NEWLINE)))
  /\ (pc = "done" /\ capturing \in Targets)
       => /\ Found(capturing)
          /\ closed[capturing] = opened[capturing]
          /\ fs[capturing] = Expected(capturing)

\* EOF was met while capturing and left a non-empty file
C7_Witness ==
  /\ pc = "done"
  /\ capturing \in Targets
  /\ fs[capturing] = Expected(capturing)
  /\ Len(fs[capturing]) > 0

----------------------------------------------------------------------------
\* C8 (P5): when no line of the input has a head that names a target, no
\* destination is ever checked for existence, opened or changed, and the run
\* returns (None, None): in every state either all that holds or some line
\* names a target.
C8_UnmatchedInert ==
  \/ /\ \A t \in Targets : checked[t] = 0 /\ opened[t] = 0
     /\ fs = fs0
     /\ pc = "done" => ret = <<None, None>>
  \/ \E t \in Targets : HasLine(t)

\* a finished run over lines with '=' of which none names a target
C8_Witness ==
  /\ pc = "done"
  /\ \A t \in Targets : ~HasLine(t)
  /\ \E s \in LineStarts : FirstEquals(s) # 0
  /\ \E s \in LineStarts : startswith(SubSeq(html, s, LineEnd(s)), KW_LET)

----------------------------------------------------------------------------
C10_Final ==
  pc = "done" => \A t \in Targets : opened[t] <= 1 /\ closed[t] = opened[t]

C10_Step ==
  \A t \in Targets :
    /\ closed'[t] # closed[t] =>
         /\ closed'[t] = closed[t] + 1
         /\ capturing = t
         /\ ~Found(t) /\ Found(t)'
         /\ NextByteIs(NEWLINE) \/ pc' = "done"
    /\ opened'[t] # opened[t] =>
         /\ opened'[t] = opened[t] + 1
         /\ NextByteIs(EQUALS)
         /\ capturing = None /\ capturing' = t
         /\ HeadTarget(headbuf) = t
         /\ ~Found(t)

\* C10: in a run that returns, every destination was opened at most once and
\* closed as often as opened; a close happens only in the step that finalizes
\* the capture (at its newline or at EOF), and an open only in the step that
\* starts capturing the line, never for a line that is skipped.
C10_OpenOnceCloseOnce == [](C10_Final) /\ [][C10_Step]_vars

C10_Witness ==
  pc = "done" /\ \A t \in Targets : opened[t] = 1 /\ closed[t] = 1

----------------------------------------------------------------------------
\* the run is in its loop over the input bytes or about to enter it
Running == pc \in {"start", "scan"}

\* the sink the scanner state calls for: the destination of the target being
\* captured, none in ScanningHead and SkippingLine
CapturingSink == IF capturing \in Targets THEN {capturing} ELSE {}

\* C11: at most one sink is open in every state; between two bytes of the scan
\* a sink is open exactly when the scanner is in Capturing(t), it is the
\* destination of t and out_fp refers to it, and in ScanningHead and
\* SkippingLine no sink is open and out_fp is None; a run that has returned
\* has no open sink (the EOF finalization closes the sink and is the end of
\* the scan).
C11_OneSinkWhenCapturing ==
  /\ Cardinality(OpenSinks(Locals)) <= 1
  /\ (Running \/ pc = "error") =>
       /\ OpenSinks(Locals) = CapturingSink
       /\ out_fp = (IF capturing \in Targets THEN capturing ELSE None)
  /\ pc = "done" => OpenSinks(Locals) = {}

\* the second capture of a run is going on: the first sink was closed, the
\* second one is open
C11_Witness ==
  /\ pc = "scan"
  /\ capturing = "assets"
  /\ found_json
  /\ closed["json"] = 1
  /\ OpenSinks(Locals) = {"assets"}
  /\ Len(fs["assets"]) = 0 /\ Len(hold) > 0

----------------------------------------------------------------------------
\* C12 (P7, overwriting): with overwrite set, a destination that existed
\* before the run and whose target has a line holds, after the run, exactly
\* the trimmed value of the first line of the target, whether that value is
\* longer or shorter than the old content, or empty.
C12_OverwriteReplaces ==
  (pc = "done" /\ overwrite) =>
    \A t \in Targets :
      (Preexisting(t) /\ HasLine(t)) => fs[t] = Expected(t)

\* both destinations existed with the same content; after the run one is
\* empty and the other holds a value shorter than the old content
C12_Witness ==
  /\ pc = "done"
  /\ overwrite
  /\ \A t \in Targets : fs0[t] = OldContent /\ HasLine(t)
  /\ fs["assets"] = <<>>
  /\ fs["json"] = <<"y", SEMI>>

----------------------------------------------------------------------------
\* the element of the returned pair that reports target t, and its path
Reported(t) == IF t = "json" THEN ret[1] ELSE ret[2]

PathOf(t) == IF t = "json" THEN "data_out" ELSE "assets_out"

\* C13: a run that returns reports the destination path of a target when a
\* capture of it was finalized (its sink was closed), which is when the
\* input has a line of the target, and None otherwise; for a target without
\* a line no file is checked, created or changed; and a run over an existing
\* input in which no target has a line never ends in an error, main
\* exiting with status 0.
C13_ReportsFound ==
  /\ pc = "done" =>
       \A t \in Targets :
         /\ Reported(t) = (IF closed[t] > 0 THEN PathOf(t) ELSE None)
         /\ closed[t] > 0 <=> HasLine(t)
         /\ ~HasLine(t) =>
              fs[t] = fs0[t] /\ checked[t] = 0 /\ opened[t] = 0
  /\ (is_file /\ \A t \in Targets : ~HasLine(t)) =>
       pc # "error" /\ (Ended => main = 0)

\* a run returned with one target found and the other absent, whose
\* destination does not exist
C13_Witness ==
  /\ pc = "done"
  /\ ret = <<None, "assets_out">>
  /\ ~HasLine("json")
  /\ fs["json"] = NoFile
  /\ closed["assets"] = 1

----------------------------------------------------------------------------
\* the current line is in ScanningHead and its '=' is the next byte
AtHeadEnd == NextByteIs(EQUALS) /\ capturing = None

C14_Matches ==
  capturing = None => _which_assignment(headbuf) = HeadTarget(headbuf)

C14_Step ==
  AtHeadEnd =>
    capturing' = (IF HeadTarget(headbuf) = None \/ Found(HeadTarget(headbuf))
                  THEN "skipline" ELSE HeadTarget(headbuf))

\* C14: on every slice s that the scanner holds in ScanningHead (every head
\* of the inputs and every prefix of one), _which_assignment(s) is the
\* documented result: Json or Assets exactly when s is spaces/tabs, at most
\* one of var/let/const with or without spaces/tabs after it, an optional
\* `window.` with or without spaces/tabs after it, and then `jsonData` or
\* `assetsJson`, whatever follows the name; and the step taken at the '='
\* depends on the slice through that result only.
C14_HeadMatcher == [](C14_Matches) /\ [][C14_Step]_vars

\* heads that match: no separator after the keyword, and a suffix after the
\* name; heads that do not: two keywords, `window.` before the keyword
C14_Witness ==
  /\ AtHeadEnd
  /\ \/ headbuf = KW_CONST \o WINDOW_DOT \o JSON_DATA \o <<"E", "x", "t", "r", "a">>
        /\ _which_assignment(headbuf) = "json"
     \/ headbuf = KW_VAR \o KW_LET \o <<SPACE>> \o JSON_DATA
        /\ _which_assignment(headbuf) = None
     \/ headbuf = WINDOW_DOT \o KW_VAR \o <<SPACE>> \o JSON_DATA
        /\ _which_assignment(headbuf) = None

----------------------------------------------------------------------------
AssetsOut == <<"{", "\"", "a", "\"", ":", "\"", "b", "\"", "}">>
JsonOut == <<"[", "{", "\"", "x", "\"", ":", "1", "}", "]">>

C15_Final ==
  pc = "done" =>
    /\ (\A t \in Targets : HasLine(t)) =>
         /\ \A t \in Targets : fs[t] = Expected(t) /\ opened[t] = 1
         /\ ret = <<"data_out", "assets_out">>
    /\ html = LineAssets \o <<NEWLINE>> \o LineJson =>
         fs["assets"] = AssetsOut /\ fs["json"] = JsonOut

C15_Step ==
  \A t \in Targets :
    fs'[t] # fs[t] =>
      /\ capturing = t \/ (capturing = None /\ capturing' = t)
      /\ \A u \in Targets \ {t} : fs'[u] = fs[u]

\* C15: a run that returns over an input with a line for each target, in
\* either order, leaves each destination with the trimmed value of the first
\* line of its own target and reports both; `const window.assetsJson =
\* {"a":"b"};` followed by `var jsonData=[{"x":1}]` without semicolon and
\* newline gives {"a":"b"} and [{"x":1}]; and a step changes the file of a
\* target only while opening or capturing that target, and never the other
\* file.
C15_BothTargets == [](C15_Final) /\ [][C15_Step]_vars

C15_Witness ==
  /\ pc = "done"
  /\ html = LineAssets \o <<NEWLINE>> \o LineJson
  /\ fs["assets"] = AssetsOut
  /\ fs["json"] = JsonOut
  /\ capturing = "json"

\* the lines in the other order, each ended by a newline
C15_WitnessJsonFirst ==
  /\ pc = "done"
  /\ html = LineJson \o <<NEWLINE>> \o LineAssets \o <<NEWLINE>>
  /\ fs["assets"] = AssetsOut
  /\ fs["json"] = JsonOut

----------------------------------------------------------------------------
\* C16: when the input path is not a regular file (it does not exist, or is
\* something else), the run raises FileNotFoundError and at no moment is a
\* destination checked for existence, opened, created, truncated or written.
C16_InputNotFound ==
  ~is_file =>
    /\ pc \in {"start", "error"}
    /\ pc = "error" => err = "FileNotFoundError" /\ main = 2
    /\ fs = fs0
    /\ \A t \in Targets : checked[t] = 0 /\ opened[t] = 0

\* the run failed although the input names a target whose destination exists
\* and may be overwritten
C16_Witness ==
  /\ pc = "error"
  /\ err = "FileNotFoundError"
  /\ ~is_file
  /\ overwrite
  /\ HasLine("json")
  /\ fs["json"] = OldContent

----------------------------------------------------------------------------
\* the documented clamp: v, or the minimum when v is below it
ClampUp(minimum, v) == IF v < minimum THEN minimum ELSE v

C17_Final ==
  /\ Len(hold) < ClampUp(MinTrailingBuffer, trailing_buffer)
  /\ pc = "error" => err \in {"FileNotFoundError", "FileExistsError"}
  /\ pc = "done" => \A t \in Targets : HasLine(t) => fs[t] = Expected(t)

C17_Step ==
  /\ avail' # avail =>
       /\ avail' - avail <= ClampUp(MinChunkSize, chunk_size)
       /\ avail' - avail = ClampUp(MinChunkSize, chunk_size) \/ avail' = Len(html)
  /\ \A t \in Targets :
       (capturing = t /\ capturing' = t /\ pc' = "scan" /\ fs'[t] # fs[t]) =>
         /\ Len(hold) = ClampUp(MinTrailingBuffer, trailing_buffer) - 1
         /\ Len(hold') = Len(hold)
  /\ \A t \in Targets :
       (capturing = t /\ capturing' = t /\ pc' = "scan" /\ hold' # hold
          /\ fs'[t] = fs[t]) =>
         Len(hold') < ClampUp(MinTrailingBuffer, trailing_buffer)

\* C17: for trailing_buffer and chunk_size below the minimum (zero and
\* negative included), at it and above it, every read returns
\* max(65536, chunk_size) bytes or what is left of the input, the window
\* starts to evict exactly when it reaches max(1024, trailing_buffer) bytes,
\* and the run raises no error for the configuration and gives the trimmed
\* value.
C17_Clamped == [](C17_Final) /\ [][C17_Step]_vars

\* a negative chunk_size: the first read took MinChunkSize bytes of a longer
\* input
C17_Witness ==
  /\ chunk_size < 0
  /\ Len(html) > MinChunkSize
  /\ pc = "scan"
  /\ avail = MinChunkSize

\* a negative trailing_buffer: the window evicts at MinTrailingBuffer bytes
C17_WitnessWindow ==
  /\ trailing_buffer < 0
  /\ capturing = "json"
  /\ Len(hold) = MinTrailingBuffer - 1
  /\ Len(fs["json"]) = 2

----------------------------------------------------------------------------
\* the step finalizes the capture of t: at its newline or at EOF
Finalizes(t) ==
  /\ pc = "scan"
  /\ capturing = t
  /\ \/ NextByteIs(NEWLINE) /\ (started_content \/ html[pos] \notin {SPACE, TAB})
     \/ pos > avail /\ avail = Len(html)

C18_Final ==
  pc = "done" =>
    /\ \A t \in Targets :
         HasLine(t) =>
           LET v == StripLeading(LineValue(FirstLine(t)))
               run == Len(v) - Len(StripTrailing(v))
           IN  /\ fs[t] = SubSeq(v, 1, Len(fs[t]))
               /\ Len(v) - Len(fs[t]) \in {run, run + 1}
               /\ Len(v) - Len(fs[t]) = run + 1 =>
                    v[Len(fs[t]) + 1] = SEMI
    /\ html = LineSemis \o <<NEWLINE>> => fs["json"] = <<"y", SEMI>>

C18_Step ==
  \A t \in Targets :
    Finalizes(t) =>
      fs'[t] = fs[t] \o StripSemi(StripTrailing(hold))

\* C18: the step that finalizes a capture (newline or EOF) appends to the
\* file the window without its trailing run of space/tab/CR and then without
\* one trailing ';', and nothing else; so the file is the value cut at its
\* end by that run and by at most one ';' before the run: `jsonData=y;;`
\* followed by CR gives `y;`.
C18_ThreeSteps == [](C18_Final) /\ [][C18_Step]_vars

C18_Witness ==
  /\ pc = "done"
  /\ html = LineSemis \o <<NEWLINE>>
  /\ fs["json"] = <<"y", SEMI>>

----------------------------------------------------------------------------
\* the index of the first byte of the line that holds byte i (not a newline)
LineStartOf(i) ==
  CHOOSE s \in 1..i :
    /\ s = 1 \/ html[s - 1] = NEWLINE
    /\ \A r \in s..i : html[r] # NEWLINE

\* the index of the first '=' among the bytes s..i
FirstEqualsIn(s, i) ==
  CHOOSE e \in s..i :
    html[e] = EQUALS /\ \A r \in s..(e - 1) : html[r] # EQUALS

\* the bytes of the current line after its first '=' that the loop has
\* consumed when byte pos is next
Consumed ==
  SubSeq(html, FirstEqualsIn(LineStartOf(pos - 1), pos - 1) + 1, pos - 1)

\* C19: between any two bytes of a capture, the content of the file followed
\* by the content of the window is, in order, every value byte consumed so
\* far after the leading spaces/tabs: a byte that leaves the window at its
\* front is in the file, and none is lost to the capacity of the window.
C19_NoLossInOrder ==
  (pc = "scan" /\ capturing \in Targets) =>
    fs[capturing] \o hold = StripLeading(Consumed)

\* more bytes were evicted to the file than the window holds, after leading
\* spaces/tabs were skipped, and the window ends in the trailing run
C19_Witness ==
  /\ pc = "scan"
  /\ capturing = "json"
  /\ Len(fs["json"]) = 6
  /\ Len(hold) = HoldMaxlen - 1
  /\ hold[Len(hold)] = TAB
  /\ Len(StripLeading(Consumed)) < Len(Consumed)
  /\ fs["json"] \o hold = StripLeading(Consumed)

----------------------------------------------------------------------------
\* the first line of t has nothing but spaces and tabs after its '='
BlankValue(t) ==
  /\ HasLine(t)
  /\ \A i \in 1..Len(LineValue(FirstLine(t))) :
       LineValue(FirstLine(t))[i] \in {SPACE, TAB}

C20_Final ==
  \A t \in Targets :
    (pc = "done" /\ BlankValue(t)) =>
      /\ fs[t] = <<>>
      /\ opened[t] = 1 /\ closed[t] = 1
      /\ Found(t)
      /\ Reported(t) = PathOf(t)

C20_Step ==
  \A t \in Targets :
    /\ (capturing = t /\ ~started_content /\ NextByteIs(NEWLINE)) =>
         /\ fs'[t] = <<>>
         /\ closed'[t] = closed[t] + 1
         /\ Found(t)'
         /\ capturing' = None /\ headbuf' = <<>> /\ out_fp' = None
    /\ (capturing = t /\ (NextByteIs(SPACE) \/ NextByteIs(TAB))) =>
         IF started_content
         THEN fs'[t] \o hold' = fs[t] \o hold \o <<html[pos]>>
         ELSE fs'[t] = fs[t] /\ hold' = hold /\ ~started_content'
    /\ (capturing = t /\ pc = "scan" /\ pos <= avail
          /\ html[pos] \notin {SPACE, TAB}) => (started_content' \/ capturing' = None)

\* C20: a line of a not yet found target whose value is empty or only
\* spaces/tabs is a completed capture: at its newline or at EOF the file
\* exists with zero bytes and is closed, the target is found and reported,
\* and after the newline the scanner is in ScanningHead with an empty
\* HeadBuffer; a space or tab is dropped only while no other byte of the
\* value has been met, and is kept from then on.
C20_EmptyValue == [](C20_Final) /\ [][C20_Step]_vars

\* the empty value `jsonData=` and the blank value `assetsJson=` space tab
\* in one run
C20_Witness ==
  /\ pc = "done"
  /\ html = LineBlank \o <<NEWLINE>> \o LineEmpty
  /\ fs0 = [t \in Targets |-> NoFile]
  /\ fs = [t \in Targets |-> <<>>]
  /\ ret = <<"data_out", "assets_out">>

----------------------------------------------------------------------------
\* the files, the counters of exists(), open() and close(), the found flags
\* and the window
Effects == <<fs, checked, opened, closed, found_json, found_assets, hold, out_fp>>

\* the byte at pos is on a line that has an '=' before it
AfterFirstEquals ==
  \E e \in LineStartOf(pos)..(pos - 1) : html[e] = EQUALS

C21_State ==
  (pc = "scan" /\ capturing = "skipline") =>
    /\ headbuf = <<>>
    /\ pos > 1 /\ html[pos - 1] # NEWLINE
    /\ LET s == LineStartOf(pos - 1)
       IN  /\ \E e \in s..(pos - 1) : html[e] = EQUALS
           /\ LET t == HeadTarget(SubSeq(html, s, FirstEqualsIn(s, pos - 1) - 1))
              IN  t = None \/ Found(t)

C21_Step ==
  /\ (pc = "scan" /\ capturing = "skipline" /\ pos <= avail) =>
       /\ UNCHANGED Effects
       /\ headbuf' = <<>>
       /\ capturing' = (IF html[pos] = NEWLINE THEN None ELSE "skipline")
  /\ (NextByteIs(EQUALS) /\ AfterFirstEquals) =>
       /\ capturing \in Targets \cup {"skipline"}
       /\ capturing' = capturing
       /\ checked' = checked /\ opened' = opened

\* C21: the scanner is in SkippingLine only after the first '=' of a line
\* whose head names no target or a target already found; there every byte,
\* a further '=' or a target name included, leaves the files, the counters,
\* the found flags and the window as they are and the HeadBuffer empty, and
\* only the newline leads back to ScanningHead; an '=' that is not the first
\* of its line never starts a capture.
C21_SkipsRestOfLine == [](C21_State) /\ [][C21_Step]_vars

\* in `x=jsonData=1` the second '=' is next, right after the name jsonData,
\* and the scanner is skipping the line
C21_Witness ==
  /\ pc = "scan"
  /\ capturing = "skipline"
  /\ NextByteIs(EQUALS)
  /\ pos > Len(JSON_DATA)
  /\ SubSeq(html, pos - Len(JSON_DATA), pos - 1) = JSON_DATA
  /\ ~found_json
  /\ fs = fs0

----------------------------------------------------------------------------
\* the index of the first byte after the last newline before byte pos
HeadStart ==
  IF pos = 1 \/ html[pos - 1] = NEWLINE THEN pos ELSE LineStartOf(pos - 1)

\* C22: before the first byte and after every byte the loop has processed,
\* the HeadBuffer is empty in SkippingLine and in Capturing, and in
\* ScanningHead it is the bytes of the input from the one after the last
\* newline to the last one processed, none of them a newline or an '='.
C22_HeadBuffer ==
  pc \in {"start", "scan", "done"} =>
    IF capturing # None THEN headbuf = <<>>
    ELSE /\ headbuf = SubSeq(html, HeadStart, pos - 1)
         /\ \A i \in 1..Len(headbuf) : headbuf[i] \notin {NEWLINE, EQUALS}

\* ScanningHead on a line that follows a captured line and a skipped line
C22_Witness ==
  /\ pc = "scan"
  /\ capturing = None
  /\ found_json
  /\ headbuf = KW_CONST
  /\ HeadStart > Len(LineOther) + 2
  /\ SubSeq(html, HeadStart - 1 - Len(LineOther), HeadStart - 2) = LineOther

----------------------------------------------------------------------------
\* The scanner as a function of the input and of the number of the next byte
\* p alone, whatever the reads were.

\* a line of t has ended, newline included, before byte p
FoundAt(t, p) == \E r \in LinesOf(t) : LineEnd(r) + 1 < p

\* the mode before byte p
ModeAt(p) ==
  IF p = 1 \/ html[p - 1] = NEWLINE THEN None
  ELSE LET s == LineStartOf(p - 1)
       IN  IF \A e \in s..(p - 1) : html[e] # EQUALS THEN None
           ELSE LET t == HeadTarget(SubSeq(html, s, FirstEqualsIn(s, p - 1) - 1))
                IN  IF t = None \/ (\E r \in LinesOf(t) : r < s)
                    THEN "skipline" ELSE t

\* everything the loop keeps from one byte to the next
Scanner ==
  <<pc, err, ret, pos, found_json, found_assets, out_fp, capturing,
    started_content, hold, headbuf, fs, checked, opened, closed>>

\* the numbers of the first and the second byte after each end of a read of
\* ChunkInput
CutPositions == {MinChunkSize - 6 + c + d : c \in ChunkCuts, d \in {1, 2}}

C23_State ==
  (pc = "scan" /\ pos \in CutPositions) =>
    /\ capturing = ModeAt(pos)
    /\ \A t \in Targets : Found(t) = FoundAt(t, pos)
    /\ out_fp = (IF capturing \in Targets THEN capturing ELSE None)
    /\ OpenSinks(Locals) = (IF capturing \in Targets THEN {capturing} ELSE {})
    /\ headbuf = (IF capturing = None THEN SubSeq(html, HeadStart, pos - 1)
                  ELSE <<>>)
    /\ IF capturing \in Targets
       THEN /\ hold = StripLeading(Consumed)
            /\ started_content = (hold # <<>>)
            /\ fs[capturing] = <<>>
       ELSE hold = <<>> /\ ~started_content
    /\ \A t \in Targets :
         fs[t] = (IF Found(t) THEN Expected(t)
                  ELSE IF capturing = t THEN <<>> ELSE NoFile)

C23_Final ==
  pc = "done" =>
    /\ \A t \in Targets : fs[t] = Expected(t) /\ opened[t] = 1 /\ closed[t] = 1
    /\ ret = <<"data_out", "assets_out">>
    /\ pos = Len(html) + 1

C23_Step == avail' # avail => UNCHANGED Scanner

\* C23: a read changes nothing the loop keeps from one byte to the next; at
\* the first and second byte after each place where a read of some chunk size
\* ends (inside the head, among the spaces after the '=', inside the value,
\* inside the trailing run), the mode, the HeadBuffer, the window,
\* started_content, the found flags, the open sink and the files are the same
\* function of the input and the byte number for every chunk size, and every
\* chunk size ends with the same files and the same result.
C23_ChunkingIndependent == [](C23_State /\ C23_Final) /\ [][C23_Step]_vars

\* the read that ended inside the name jsonData is over and the read after
\* it has given the next byte: the HeadBuffer holds the bytes of both
C23_Witness ==
  /\ pc = "scan"
  /\ chunk_size = MinChunkSize
  /\ avail = Len(html)
  /\ pos = MinChunkSize + 2
  /\ capturing = None
  /\ headbuf = KW_VAR \o <<SPACE>> \o SubSeq(JSON_DATA, 1, 3)

----------------------------------------------------------------------------
C24_State ==
  \A t \in Targets :
    /\ checked[t] <= 1
    /\ (checked[t] # 0 \/ fs[t] # fs0[t]) => HasLine(t)
    /\ (pc = "error" /\ is_file) =>
         \E c \in Targets : HasLine(c) /\ Preexisting(c) /\ Refused(c)
    /\ (pc = "done" /\ HasLine(t)) => checked[t] = 1 /\ opened[t] = 1

C24_Step ==
  \A t \in Targets :
    checked'[t] # checked[t] =>
      /\ checked'[t] = checked[t] + 1
      /\ NextByteIs(EQUALS)
      /\ capturing = None
      /\ HeadTarget(headbuf) = t
      /\ ~Found(t)
      /\ capturing' = t \/ err' = "FileExistsError"

\* C24: path.exists() is called for a destination only in the step that is
\* about to capture a line of its target, while that target is not found:
\* at most once per destination, never for a target without a line (whose
\* existing file is left as it is and makes no run fail, overwrite being
\* false), and never for a second line of a found target, so a run over two
\* lines of a target returns with one check and one open.
C24_LazyGuard == [](C24_State) /\ [][C24_Step]_vars

\* overwrite is false, assets.json exists and no line names assetsJson; two
\* lines name jsonData; the run returned
C24_Witness ==
  /\ pc = "done"
  /\ ~overwrite
  /\ fs0 = [t \in Targets |-> IF t = "assets" THEN OldContent ELSE NoFile]
  /\ ~HasLine("assets")
  /\ fs["assets"] = OldContent
  /\ Cardinality(LinesOf("json")) = 2
  /\ checked["json"] = 1
  /\ fs["json"] = Expected("json")

----------------------------------------------------------------------------
\* what a step may act on in the file system
FileActions == <<fs, checked, opened, closed>>

C25_State ==
  /\ pos \in 1..(Len(html) + 1)
  /\ avail \in 0..Len(html)
  /\ pos <= avail + 1
  /\ pc = "done" => pos = Len(html) + 1 /\ avail = Len(html)

C25_Step ==
  /\ pos' # pos =>
       /\ pos' = pos + 1
       /\ pos <= avail
       /\ Outcome(Locals)' = Outcome(OnByte(Locals, html[pos]))
  /\ (pc' # pc /\ pc' = "done" /\ capturing \notin Targets) =>
       /\ UNCHANGED FileActions
       /\ UNCHANGED <<found_json, found_assets>>
       /\ pos = Len(html) + 1
  /\ \A t \in Targets :
       /\ Found(t) => Found(t)'
       /\ (~Found(t) /\ Found(t)') =>
            /\ Finalizes(t)
            /\ closed'[t] = closed[t] + 1
            /\ opened'[t] = opened[t] /\ checked'[t] = checked[t]
       /\ opened'[t] # opened[t] => ~Found(t)'

\* C25: every run ends, by a return or by an error; each step of the loop
\* takes the byte at pos and moves pos on by one, and the return happens
\* with every byte of the input taken; EOF in ScanningHead or SkippingLine
\* changes no file and calls no exists(), open() or close(); a found flag
\* that is set stays set, and it is set only by the step that finalizes the
\* capture of its target and closes its sink, never by the step that opens
\* the sink.
C25_TerminatesMonotonic ==
  /\ [](C25_State)
  /\ [][C25_Step]_vars
  /\ <>(Ended)

\* the run returned at EOF in SkippingLine, after a capture that set a flag
C25_Witness ==
  /\ pc = "done"
  /\ capturing = "skipline"
  /\ found_json /\ ~found_assets
  /\ pos = Len(html) + 1
  /\ Len(html) > 0

====
